---- MODULE Spec2Model ----
(***************************************************************************)
(* A model of the basic_trie crate: the dataless Trie                       *)
(* (src/src/trie/regular_trie.rs over src/src/trie_node/regular_node.rs)    *)
(* and the DataTrie (src/src/trie/data_trie.rs over                         *)
(* src/src/trie_node/data_node.rs).                                         *)
(*                                                                         *)
(* Representation.                                                         *)
(*  - A word (&str) is the sequence of its grapheme clusters; a grapheme    *)
(*    is a string. `substring + character` is Append.                       *)
(*  - A node is a record; its child table (FxHashMap) is a function from    *)
(*    the set of present graphemes to nodes.                                *)
(*  - Option<T>: None is <<>>, Some(v) is <<v>>.                           *)
(*  - usize: a value is represented by its residue modulo 2^64 that lies in *)
(*    -2^63 .. 2^63-1, so -1 stands for usize::MAX. The reachable values    *)
(*    stay within a few units of 0, where +, - on representatives are the   *)
(*    wrapping operations; comparisons go through usize_lt.                 *)
(*  - A panic is the absorbing state panicked = TRUE.                       *)
(***************************************************************************)
EXTENDS Integers, Sequences, FiniteSets, TLC

VARIABLES
    kind,             \* which type the client program uses: "Trie" or "DataTrie"
    overflow_checks,  \* build profile: TRUE = debug (overflow panics), FALSE = release (wraps)
    trie_1, trie_2,   \* two Trie values (left and right operand of a merge)
    data_trie_1, data_trie_2,  \* two DataTrie values
    panicked,         \* a fatal error (panic) has happened
    ops,              \* number of public calls made so far
    last              \* the last public call: what was called and which path it took

vars == <<kind, overflow_checks, trie_1, trie_2, data_trie_1, data_trie_2, panicked, ops, last>>

-----------------------------------------------------------------------------
(* Bounds of the exploration *)

\* number of public calls in one run
MaxOps == 4

\* capacity in bytes of the child-table key, ArrayString<4>
ArrayStringCap == 4

\* a grapheme cluster longer than 4 bytes (a regional-indicator pair, 8 bytes)
LongGrapheme == "FLAG"

\* the words the client passes in
Words == { <<>>, <<"a">>, <<"a", "b">>, <<"a", "c">>, <<LongGrapheme>> }

\* the data items the client attaches. D is a type parameter without trait
\* bounds, so the code cannot inspect an item: two distinguishable items show
\* every order, loss or duplication
Data == {1, 2}

-----------------------------------------------------------------------------
(* Option and usize *)

None == <<>>
Some(v) == <<v>>
is_some(o) == Len(o) = 1
is_none(o) == Len(o) = 0
unwrap(o) == o[1]

\* a < b on usize
usize_lt(a, b) == IF (a < 0) = (b < 0) THEN a < b ELSE b < 0

\* usize::MAX
usize_MAX == -1

\* the value is one a counter takes only by wrapping below zero (above 2^63)
usize_wrapped(a) == a < 0

\* `a -= b`: the new value, and whether the subtraction overflowed
usize_sub(a, b) == [val |-> a - b, overflow |-> usize_lt(a, b)]

\* `a += b`
usize_add(a, b) == [val |-> a + b, overflow |-> (a < 0 /\ a + b >= 0)]

-----------------------------------------------------------------------------
(* Tokenization *)

\* length in bytes of a grapheme cluster
Utf8Len(character) == IF character = LongGrapheme THEN 8 ELSE 1

\* get_characters: the graphemes of the word, in order
get_characters(word) == [i \in 1..Len(word) |-> word[i]]

\* ArrayString::from(character): Err when the cluster does not fit
ArrayString_from(character) ==
    IF Utf8Len(character) <= ArrayStringCap THEN Some(character) ELSE None

\* the order in which a hash map's entries are visited: some order
RECURSIVE iter(_)
iter(S) ==
    IF S = {} THEN <<>>
    ELSE LET x == CHOOSE y \in S : TRUE IN <<x>> \o iter(S \ {x})

\* the entries of a hash map in one of the orders its iterator can yield: the
\* order is unspecified, `rev` picks one of two opposite orders
iter_in(S, rev) ==
    LET s == iter(S) IN IF rev THEN [i \in 1..Len(s) |-> s[Len(s) + 1 - i]] ELSE s

\* String::len(): the length of the word in bytes
RECURSIVE str_len(_)
str_len(word) == IF word = <<>> THEN 0 ELSE Utf8Len(Head(word)) + str_len(Tail(word))

\* a.cmp(&b)
cmp(a, b) == IF a < b THEN "Less" ELSE IF a > b THEN "Greater" ELSE "Equal"

\* mutant of words_min_max_match: a word tied with the first found one is dropped
words_min_max_match_tie_breaks(c, ord) ==
    IF c = "Less" /\ ord = "Less" THEN "clear"
    ELSE IF c = "Greater" /\ ord = "Greater" THEN "clear"
    ELSE "break"

\* the match in words_min_max on substring.len().cmp(&found.len()): the found
\* words are cleared, kept, or the candidate is skipped (break 'word)
words_min_max_match(c, ord) ==
    IF c = "Less" /\ ord = "Less" THEN "clear"
    ELSE IF c = "Greater" /\ ord = "Greater" THEN "clear"
    ELSE IF c = "Equal" THEN "keep"
    ELSE "break"

\* the block 'word of words_min_max at a node: found_words afterwards
words_min_max_word(associated, substring, found_words, ord) ==
    IF ~associated THEN found_words
    ELSE IF found_words = <<>> THEN <<substring>>
    ELSE LET m == words_min_max_match(cmp(str_len(substring), str_len(Head(found_words))), ord)
         IN IF m = "break" THEN found_words
            ELSE IF m = "clear" THEN <<substring>>
            ELSE Append(found_words, substring)

\* children.keys(): the keys in the order the table's iterator yields them
keys(children, rev) == iter_in(DOMAIN children, rev)

\* FxHashMap::default()
FxHashMap_default == [x \in {} |-> 0]

\* children.insert(char, node)
map_insert(children, char, node) ==
    [x \in DOMAIN children \cup {char} |-> IF x = char THEN node ELSE children[x]]

-----------------------------------------------------------------------------
(* TrieDatalessNode, src/src/trie_node/regular_node.rs *)

TrieDatalessNode_new == [children |-> FxHashMap_default, word_end |-> FALSE]

TrieDatalessNode_associate(self) == [self EXCEPT !.word_end = TRUE]

\* mutant of TrieDatalessNode_disassociate: the mark is left in place
TrieDatalessNode_disassociate_skipped(self) == self

TrieDatalessNode_disassociate(self) == [self EXCEPT !.word_end = FALSE]

TrieDatalessNode_is_associated(self) == self.word_end

TrieDatalessNode_clear_children(self) == [self EXCEPT !.children = FxHashMap_default]

RECURSIVE TrieDatalessNode_find_words(_, _)
RECURSIVE TrieDatalessNode_find_words_children(_, _, _)
\* mutant of TrieDatalessNode_find_words: the string of every node is emitted
TrieDatalessNode_find_words_every_node(self, substring) ==
    <<substring>>
    \o TrieDatalessNode_find_words_children(self, substring, iter(DOMAIN self.children))

TrieDatalessNode_find_words(self, substring) ==
    (IF TrieDatalessNode_is_associated(self) THEN <<substring>> ELSE <<>>)
    \o TrieDatalessNode_find_words_children(self, substring, iter(DOMAIN self.children))

TrieDatalessNode_find_words_children(self, substring, characters) ==
    IF characters = <<>> THEN <<>>
    ELSE TrieDatalessNode_find_words(self.children[Head(characters)],
                                     Append(substring, Head(characters)))
         \o TrieDatalessNode_find_words_children(self, substring, Tail(characters))

\* words_min_max: found_words after the traversal of the subtree
RECURSIVE TrieDatalessNode_words_min_max(_, _, _, _, _)
RECURSIVE TrieDatalessNode_words_min_max_children(_, _, _, _, _, _)
TrieDatalessNode_words_min_max(self, substring, found_words, ord, rev) ==
    TrieDatalessNode_words_min_max_children(
        self, substring,
        words_min_max_word(TrieDatalessNode_is_associated(self), substring, found_words, ord),
        ord, rev, iter_in(DOMAIN self.children, rev))

TrieDatalessNode_words_min_max_children(self, substring, found_words, ord, rev, characters) ==
    IF characters = <<>> THEN found_words
    ELSE TrieDatalessNode_words_min_max_children(
            self, substring,
            TrieDatalessNode_words_min_max(self.children[Head(characters)],
                                           Append(substring, Head(characters)),
                                           found_words, ord, rev),
            ord, rev, Tail(characters))

\* remove_all_words: the node with its child table dropped, and the number of
\* word ends counted in the subtree (the node itself included)
RECURSIVE TrieDatalessNode_count_words(_)
TrieDatalessNode_count_words(self) ==
    LET RECURSIVE sum(_)
        sum(S) == IF S = {} THEN 0
                  ELSE LET c == CHOOSE y \in S : TRUE
                       IN TrieDatalessNode_count_words(self.children[c]) + sum(S \ {c})
    IN sum(DOMAIN self.children)
       + (IF TrieDatalessNode_is_associated(self) THEN 1 ELSE 0)

\* mutant of TrieDatalessNode_remove_all_words: the node's own mark goes too
TrieDatalessNode_remove_all_words_and_self(self) ==
    [self |-> TrieDatalessNode_clear_children(TrieDatalessNode_disassociate(self)),
     num_removed |-> TrieDatalessNode_count_words(self)]

TrieDatalessNode_remove_all_words(self) ==
    [self |-> TrieDatalessNode_clear_children(self),
     num_removed |-> TrieDatalessNode_count_words(self)]

\* the test after the recursive call of remove_one_word: the subtree stays
TrieDatalessNode_must_keep(self, must_keep) ==
    Cardinality(DOMAIN self.children) > 1 \/ must_keep

\* remove_one_word: the node afterwards, must_keep, and whether the unwrap on
\* the child lookup failed
RECURSIVE TrieDatalessNode_remove_one_word(_, _)
TrieDatalessNode_remove_one_word(self, characters) ==
    IF characters = <<>>
    THEN [self |-> TrieDatalessNode_disassociate(self), must_keep |-> FALSE, panicked |-> FALSE]
    ELSE LET next_character == Head(characters) IN
         IF next_character \notin DOMAIN self.children
         THEN [self |-> self, must_keep |-> FALSE, panicked |-> TRUE]
         ELSE LET r == TrieDatalessNode_remove_one_word(self.children[next_character],
                                                        Tail(characters))
                  self1 == [self EXCEPT !.children[next_character] = r.self]
              IN IF r.panicked
                 THEN [self |-> self1, must_keep |-> FALSE, panicked |-> TRUE]
                 ELSE IF TrieDatalessNode_must_keep(self1, r.must_keep)
                 THEN [self |-> self1, must_keep |-> TRUE, panicked |-> FALSE]
                 ELSE [self |-> TrieDatalessNode_clear_children(self1),
                       must_keep |-> TrieDatalessNode_is_associated(self1),
                       panicked |-> FALSE]

\* self += rhs
RECURSIVE TrieDatalessNode_add_assign(_, _)
TrieDatalessNode_add_assign(self, rhs) ==
    [self EXCEPT !.children =
        [char \in DOMAIN self.children \cup DOMAIN rhs.children |->
            IF char \notin DOMAIN rhs.children THEN self.children[char]
            ELSE IF char \notin DOMAIN self.children THEN rhs.children[char]
            ELSE LET rhs_next_node == rhs.children[char]
                     self_next_node == self.children[char]
                     marked == IF rhs_next_node.word_end
                               THEN [self_next_node EXCEPT !.word_end = TRUE]
                               ELSE self_next_node
                 IN TrieDatalessNode_add_assign(marked, rhs_next_node)]]

\* self == other. The key iterators of the two child tables are compared element
\* by element; rev tells whether two tables holding the same keys yield them in
\* opposite orders (the order of a hash map's iterator is unspecified)
RECURSIVE TrieDatalessNode_eq(_, _, _)
TrieDatalessNode_eq(self, other, rev) ==
    IF keys(self.children, FALSE) # keys(other.children, rev) THEN FALSE
    ELSE IF self.word_end # other.word_end THEN FALSE
    ELSE \A char \in DOMAIN self.children :
            TrieDatalessNode_eq(other.children[char], self.children[char], rev)

-----------------------------------------------------------------------------
(* Trie, src/src/trie/regular_trie.rs *)

Trie_new == [root |-> TrieDatalessNode_new, len |-> 0]

\* get_final_node / get_final_node_mut: the node at the end of the path, if any
RECURSIVE walk(_, _)
walk(node, characters) ==
    IF characters = <<>> THEN Some(node)
    ELSE IF Head(characters) \notin DOMAIN node.children THEN None
    ELSE walk(node.children[Head(characters)], Tail(characters))

Trie_get_final_node(self, query) == walk(self.root, get_characters(query))

\* a write through the &mut returned by get_final_node_mut
RECURSIVE write(_, _, _)
write(node, characters, new_node) ==
    IF characters = <<>> THEN new_node
    ELSE [node EXCEPT !.children[Head(characters)] =
              write(node.children[Head(characters)], Tail(characters), new_node)]

\* the loop of insert: entry(character).or_default() along the path, then the
\* final node is replaced by `final`
RECURSIVE entry_path(_, _, _)
entry_path(node, characters, default) ==
    IF characters = <<>> THEN node
    ELSE LET c == Head(characters)
             child == IF c \in DOMAIN node.children THEN node.children[c] ELSE default
         IN [node EXCEPT !.children =
                map_insert(node.children, c, entry_path(child, Tail(characters), default))]

\* every grapheme of the word fits the child-table key
fits(word) == \A i \in 1..Len(word) : is_some(ArrayString_from(word[i]))

Trie_contains(self, query) ==
    LET n == Trie_get_final_node(self, query)
    IN IF is_none(n) THEN FALSE ELSE TrieDatalessNode_is_associated(unwrap(n))

\* a get that finds nothing below a query that is not itself a word
Trie_get_exact_only(self, query) ==
    LET n == walk(self.root, get_characters(query))
    IN IF is_none(n) \/ ~TrieDatalessNode_is_associated(unwrap(n)) THEN None
       ELSE Some(TrieDatalessNode_find_words(unwrap(n), query))

Trie_get(self, query) ==
    LET n == walk(self.root, get_characters(query))
    IN IF is_none(n) THEN None
       ELSE Some(TrieDatalessNode_find_words(unwrap(n), query))

Trie_get_all(self) == unwrap(Trie_get(self, <<>>))

\* get_longest, get_shortest; rev is the order the child tables are visited in
Trie_get_longest(self, rev) ==
    TrieDatalessNode_words_min_max(self.root, <<>>, <<>>, "Greater", rev)

Trie_get_shortest(self, rev) ==
    TrieDatalessNode_words_min_max(self.root, <<>>, <<>>, "Less", rev)

Trie_len(self) == self.len

Trie_is_empty(self) == self.len = 0

\* Every operation below yields [self, panicked, branch]: the trie afterwards,
\* whether the call panicked, and the path taken through the code.

Trie_insert(self, word) ==
    LET characters == get_characters(word) IN
    IF ~fits(word)
    THEN [self |-> self, panicked |-> TRUE, branch |-> "capacity"]
    ELSE LET root1 == entry_path(self.root, characters, TrieDatalessNode_new)
             current == unwrap(walk(root1, characters))
             inc == usize_add(self.len, 1)
             fresh == ~TrieDatalessNode_is_associated(current)
         IN IF fresh /\ inc.overflow /\ overflow_checks
            THEN [self |-> self, panicked |-> TRUE, branch |-> "overflow"]
            ELSE [self |-> [root |-> write(root1, characters, TrieDatalessNode_associate(current)),
                            len |-> IF fresh THEN inc.val ELSE self.len],
                  panicked |-> FALSE,
                  branch |-> IF fresh THEN "new" ELSE "again"]

Trie_remove(self, word) ==
    LET found == Trie_get_final_node(self, word)
        characters == get_characters(word)
        dec == usize_sub(self.len, 1)
    IN IF is_none(found)
       THEN [self |-> self, panicked |-> FALSE, branch |-> "absent"]
       ELSE LET current == unwrap(found) IN
            IF DOMAIN current.children # {}
            THEN IF TrieDatalessNode_is_associated(current)
                 THEN IF dec.overflow /\ overflow_checks
                      THEN [self |-> self, panicked |-> TRUE, branch |-> "overflow"]
                      ELSE [self |-> [root |-> write(self.root, characters,
                                                     TrieDatalessNode_disassociate(current)),
                                      len |-> dec.val],
                            panicked |-> FALSE, branch |-> "inner"]
                 ELSE [self |-> self, panicked |-> FALSE, branch |-> "inner_not_word"]
            ELSE LET r == TrieDatalessNode_remove_one_word(self.root, characters) IN
                 IF r.panicked
                 THEN [self |-> self, panicked |-> TRUE, branch |-> "unwrap"]
                 ELSE IF dec.overflow /\ overflow_checks
                 THEN [self |-> self, panicked |-> TRUE, branch |-> "overflow"]
                 ELSE [self |-> [root |-> r.self, len |-> dec.val],
                       panicked |-> FALSE,
                       branch |-> IF TrieDatalessNode_is_associated(current)
                                  THEN "leaf" ELSE "leaf_not_word"]

Trie_remove_prefix(self, prefix) ==
    LET found == Trie_get_final_node(self, prefix)
        characters == get_characters(prefix)
    IN IF is_none(found)
       THEN [self |-> self, panicked |-> FALSE, branch |-> "absent"]
       ELSE LET current == unwrap(found)
                r == TrieDatalessNode_remove_all_words(current)
                own == IF TrieDatalessNode_is_associated(r.self) THEN 1 ELSE 0
                inner == usize_sub(r.num_removed, own)
                dec == usize_sub(self.len, inner.val)
            IN IF (inner.overflow \/ dec.overflow) /\ overflow_checks
               THEN [self |-> self, panicked |-> TRUE, branch |-> "overflow"]
               ELSE [self |-> [root |-> write(self.root, characters, r.self),
                               len |-> dec.val],
                     panicked |-> FALSE, branch |-> "found"]

Trie_clear(self) ==
    [self |-> [root |-> TrieDatalessNode_clear_children(self.root), len |-> 0],
     panicked |-> FALSE, branch |-> "clear"]

\* self + rhs
Trie_add(self, rhs) ==
    LET smaller == IF usize_lt(self.len, rhs.len) THEN self ELSE rhs
        bigger == IF usize_lt(self.len, rhs.len) THEN rhs ELSE self
    IN [self |-> [bigger EXCEPT !.root = TrieDatalessNode_add_assign(bigger.root, smaller.root)],
        panicked |-> FALSE,
        branch |-> IF usize_lt(self.len, rhs.len) THEN "into_rhs" ELSE "into_self"]

\* self += rhs
Trie_add_assign(self, rhs) ==
    [self |-> [self EXCEPT !.root = TrieDatalessNode_add_assign(self.root, rhs.root)],
     panicked |-> FALSE, branch |-> "into_self"]

\* self == other
Trie_eq(self, other, rev) == TrieDatalessNode_eq(self.root, other.root, rev)

-----------------------------------------------------------------------------
(* TrieDataNode, src/src/trie_node/data_node.rs *)

\* a list that is not empty when made
ThinVec_with_item == <<1>>

ThinVec_new == <<>>

TrieDataNode_new == [children |-> FxHashMap_default, word_end_data |-> None]

\* mutant of TrieDataNode_associate: the node is left unmarked
TrieDataNode_associate_skipped(self) == self

TrieDataNode_associate(self) == [self EXCEPT !.word_end_data = Some(ThinVec_new)]

\* disassociate: the node afterwards and the association taken out of it
TrieDataNode_disassociate(self) ==
    [self |-> [self EXCEPT !.word_end_data = None], data |-> self.word_end_data]

TrieDataNode_is_associated(self) == is_some(self.word_end_data)

TrieDataNode_get_association(self) == self.word_end_data

TrieDataNode_clear_children(self) == [self EXCEPT !.children = FxHashMap_default]

\* mutant of TrieDataNode_push_data: the new item replaces the list
TrieDataNode_push_data_overwrite(self, data) ==
    IF is_none(self.word_end_data)
    THEN [self |-> self, panicked |-> TRUE]
    ELSE [self |-> [self EXCEPT !.word_end_data = Some(<<data>>)], panicked |-> FALSE]

\* push_data: unwrap of the association, then push
TrieDataNode_push_data(self, data) ==
    IF is_none(self.word_end_data)
    THEN [self |-> self, panicked |-> TRUE]
    ELSE [self |-> [self EXCEPT !.word_end_data = Some(Append(unwrap(self.word_end_data), data))],
          panicked |-> FALSE]

\* mutant of TrieDataNode_clear_word_end_association: the data taken out is dropped
TrieDataNode_clear_word_end_association_data_dropped(self, keep_word) ==
    LET d == TrieDataNode_disassociate(self)
    IN [self |-> IF keep_word /\ is_some(d.data)
                 THEN TrieDataNode_associate(d.self) ELSE d.self,
        data |-> IF is_some(d.data) THEN Some(ThinVec_new) ELSE None]

TrieDataNode_clear_word_end_association(self, keep_word) ==
    LET d == TrieDataNode_disassociate(self)
    IN [self |-> IF keep_word /\ is_some(d.data)
                 THEN TrieDataNode_associate(d.self) ELSE d.self,
        data |-> d.data]

RECURSIVE TrieDataNode_find_words(_, _)
RECURSIVE TrieDataNode_find_words_children(_, _, _)
TrieDataNode_find_words(self, substring) ==
    (IF TrieDataNode_is_associated(self) THEN <<substring>> ELSE <<>>)
    \o TrieDataNode_find_words_children(self, substring, iter(DOMAIN self.children))

TrieDataNode_find_words_children(self, substring, characters) ==
    IF characters = <<>> THEN <<>>
    ELSE TrieDataNode_find_words(self.children[Head(characters)],
                                 Append(substring, Head(characters)))
         \o TrieDataNode_find_words_children(self, substring, Tail(characters))

\* generate_all_data: the node's own data, then the children's
RECURSIVE TrieDataNode_generate_all_data(_)
RECURSIVE TrieDataNode_generate_all_data_children(_, _)
\* mutant of TrieDataNode_generate_all_data: the node's own data is left out
TrieDataNode_generate_all_data_children_only(self) ==
    TrieDataNode_generate_all_data_children(self, iter(DOMAIN self.children))

TrieDataNode_generate_all_data(self) ==
    (IF is_some(self.word_end_data) THEN unwrap(self.word_end_data) ELSE <<>>)
    \o TrieDataNode_generate_all_data_children(self, iter(DOMAIN self.children))

TrieDataNode_generate_all_data_children(self, characters) ==
    IF characters = <<>> THEN <<>>
    ELSE TrieDataNode_generate_all_data(self.children[Head(characters)])
         \o TrieDataNode_generate_all_data_children(self, Tail(characters))

\* words_min_max: found_words after the traversal of the subtree
RECURSIVE TrieDataNode_words_min_max(_, _, _, _, _)
RECURSIVE TrieDataNode_words_min_max_children(_, _, _, _, _, _)
TrieDataNode_words_min_max(self, substring, found_words, ord, rev) ==
    TrieDataNode_words_min_max_children(
        self, substring,
        words_min_max_word(TrieDataNode_is_associated(self), substring, found_words, ord),
        ord, rev, iter_in(DOMAIN self.children, rev))

TrieDataNode_words_min_max_children(self, substring, found_words, ord, rev, characters) ==
    IF characters = <<>> THEN found_words
    ELSE TrieDataNode_words_min_max_children(
            self, substring,
            TrieDataNode_words_min_max(self.children[Head(characters)],
                                       Append(substring, Head(characters)),
                                       found_words, ord, rev),
            ord, rev, Tail(characters))

\* remove_all_words_collect: the node afterwards (disassociated, child table
\* dropped), the number of word ends counted, and the data appended to found_data
\* (the children's first, then the node's own)
RECURSIVE TrieDataNode_remove_all_words_collect(_)
RECURSIVE TrieDataNode_collect_children(_, _)
\* mutant of TrieDataNode_remove_all_words_collect: the node's own data is not
\* appended to found_data
TrieDataNode_remove_all_words_collect_children_only(self) ==
    LET below == TrieDataNode_collect_children(self, iter(DOMAIN self.children))
        d == TrieDataNode_disassociate(self)
    IN [self |-> TrieDataNode_clear_children(d.self),
        num_removed |-> below.num_removed + (IF TrieDataNode_is_associated(self) THEN 1 ELSE 0),
        found_data |-> below.found_data]

TrieDataNode_remove_all_words_collect(self) ==
    LET below == TrieDataNode_collect_children(self, iter(DOMAIN self.children))
        d == TrieDataNode_disassociate(self)
    IN [self |-> TrieDataNode_clear_children(d.self),
        num_removed |-> below.num_removed + (IF TrieDataNode_is_associated(self) THEN 1 ELSE 0),
        found_data |-> below.found_data \o (IF is_some(d.data) THEN unwrap(d.data) ELSE <<>>)]

\* the sum over children.values_mut() of remove_all_words_collect
TrieDataNode_collect_children(self, characters) ==
    IF characters = <<>> THEN [num_removed |-> 0, found_data |-> <<>>]
    ELSE LET one == TrieDataNode_remove_all_words_collect(self.children[Head(characters)])
             rest == TrieDataNode_collect_children(self, Tail(characters))
         IN [num_removed |-> one.num_removed + rest.num_removed,
             found_data |-> one.found_data \o rest.found_data]

\* mutant of TrieDataNode_must_keep: the number of children is not looked at
TrieDataNode_must_keep_only_flag(self, must_keep) == must_keep

\* the test after the recursive call of remove_one_word: the subtree stays
TrieDataNode_must_keep(self, must_keep) ==
    Cardinality(DOMAIN self.children) > 1 \/ must_keep

\* remove_one_word: the node afterwards, must_keep, the association taken from
\* the terminal node, and whether the unwrap on the child lookup failed
RECURSIVE TrieDataNode_remove_one_word(_, _)
TrieDataNode_remove_one_word(self, characters) ==
    IF characters = <<>>
    THEN LET d == TrieDataNode_disassociate(self)
         IN [self |-> d.self, must_keep |-> FALSE, data |-> d.data, panicked |-> FALSE]
    ELSE LET next_character == Head(characters) IN
         IF next_character \notin DOMAIN self.children
         THEN [self |-> self, must_keep |-> FALSE, data |-> None, panicked |-> TRUE]
         ELSE LET r == TrieDataNode_remove_one_word(self.children[next_character],
                                                    Tail(characters))
                  self1 == [self EXCEPT !.children[next_character] = r.self]
              IN IF r.panicked
                 THEN [self |-> self1, must_keep |-> FALSE, data |-> None, panicked |-> TRUE]
                 ELSE IF TrieDataNode_must_keep(self1, r.must_keep)
                 THEN [self |-> self1, must_keep |-> TRUE, data |-> r.data, panicked |-> FALSE]
                 ELSE [self |-> TrieDataNode_clear_children(self1),
                       must_keep |-> TrieDataNode_is_associated(self1),
                       data |-> r.data, panicked |-> FALSE]

\* self += rhs
RECURSIVE TrieDataNode_add_assign(_, _)
TrieDataNode_add_assign(self, rhs) ==
    [self EXCEPT !.children =
        [char \in DOMAIN self.children \cup DOMAIN rhs.children |->
            IF char \notin DOMAIN rhs.children THEN self.children[char]
            ELSE IF char \notin DOMAIN self.children THEN rhs.children[char]
            ELSE LET rhs_next_node == rhs.children[char]
                     self_next_node == self.children[char]
                     taken == [rhs_next_node EXCEPT !.word_end_data = None]
                     merged ==
                        IF is_some(rhs_next_node.word_end_data)
                        THEN IF is_some(self_next_node.word_end_data)
                             THEN [self_next_node EXCEPT !.word_end_data =
                                      Some(unwrap(self_next_node.word_end_data)
                                           \o unwrap(rhs_next_node.word_end_data))]
                             ELSE [self_next_node EXCEPT !.word_end_data =
                                      rhs_next_node.word_end_data]
                        ELSE self_next_node
                 IN TrieDataNode_add_assign(merged, taken)]]

\* self == other
RECURSIVE TrieDataNode_eq(_, _)
TrieDataNode_eq(self, other) ==
    IF ~( /\ Cardinality(DOMAIN self.children) = Cardinality(DOMAIN other.children)
          /\ \A k \in DOMAIN self.children : k \in DOMAIN other.children )
    THEN FALSE
    ELSE IF self.word_end_data # other.word_end_data THEN FALSE
    ELSE \A char \in DOMAIN self.children :
            TrieDataNode_eq(other.children[char], self.children[char])

-----------------------------------------------------------------------------
(* DataTrie, src/src/trie/data_trie.rs *)

DataTrie_new == [root |-> TrieDataNode_new, len |-> 0]

DataTrie_get_final_node(self, query) == walk(self.root, get_characters(query))

DataTrie_contains(self, query) ==
    LET n == DataTrie_get_final_node(self, query)
    IN IF is_none(n) THEN FALSE ELSE TrieDataNode_is_associated(unwrap(n))

DataTrie_get(self, query) ==
    LET n == walk(self.root, get_characters(query))
    IN IF is_none(n) THEN None
       ELSE Some(TrieDataNode_find_words(unwrap(n), query))

DataTrie_get_all(self) == unwrap(DataTrie_get(self, <<>>))

\* mutant of DataTrie_get_data: the exact mode collects like the soft mode
DataTrie_get_data_always_soft(self, query, soft_match) ==
    LET n == DataTrie_get_final_node(self, query)
    IN IF is_none(n) THEN None
       ELSE Some(TrieDataNode_generate_all_data(unwrap(n)))

DataTrie_get_data(self, query, soft_match) ==
    LET n == DataTrie_get_final_node(self, query)
    IN IF is_none(n) THEN None
       ELSE IF soft_match THEN Some(TrieDataNode_generate_all_data(unwrap(n)))
       ELSE TrieDataNode_get_association(unwrap(n))

\* get_longest, get_shortest; rev is the order the child tables are visited in
DataTrie_get_longest(self, rev) ==
    TrieDataNode_words_min_max(self.root, <<>>, <<>>, "Greater", rev)

DataTrie_get_shortest(self, rev) ==
    TrieDataNode_words_min_max(self.root, <<>>, <<>>, "Less", rev)

DataTrie_len(self) == self.len

DataTrie_is_empty(self) == self.len = 0

\* Every operation below yields [self, panicked, branch, ret]: the trie
\* afterwards, whether the call panicked, the path taken through the code, and
\* the value returned.

DataTrie_insert(self, word, associated_data) ==
    LET characters == get_characters(word) IN
    IF ~fits(word)
    THEN [self |-> self, panicked |-> TRUE, branch |-> "capacity", ret |-> None]
    ELSE LET root1 == entry_path(self.root, characters, TrieDataNode_new)
             current == unwrap(walk(root1, characters))
             fresh == ~TrieDataNode_is_associated(current)
             inc == usize_add(self.len, 1)
             current1 == IF fresh THEN TrieDataNode_associate(current) ELSE current
             pushed == TrieDataNode_push_data(current1, associated_data)
         IN IF fresh /\ inc.overflow /\ overflow_checks
            THEN [self |-> self, panicked |-> TRUE, branch |-> "overflow", ret |-> None]
            ELSE IF pushed.panicked
            THEN [self |-> self, panicked |-> TRUE, branch |-> "unwrap", ret |-> None]
            ELSE [self |-> [root |-> write(root1, characters, pushed.self),
                            len |-> IF fresh THEN inc.val ELSE self.len],
                  panicked |-> FALSE,
                  branch |-> IF fresh THEN "new" ELSE "again",
                  ret |-> None]

\* an insert_no_data that associates the node whether it is a word end or not
DataTrie_insert_no_data_reassociates(self, word) ==
    LET characters == get_characters(word) IN
    IF ~fits(word)
    THEN [self |-> self, panicked |-> TRUE, branch |-> "capacity", ret |-> None]
    ELSE LET root1 == entry_path(self.root, characters, TrieDataNode_new)
             current == unwrap(walk(root1, characters))
             fresh == ~TrieDataNode_is_associated(current)
             inc == usize_add(self.len, 1)
         IN IF fresh /\ inc.overflow /\ overflow_checks
            THEN [self |-> self, panicked |-> TRUE, branch |-> "overflow", ret |-> None]
            ELSE [self |-> [root |-> write(root1, characters, TrieDataNode_associate(current)),
                            len |-> IF fresh THEN inc.val ELSE self.len],
                  panicked |-> FALSE,
                  branch |-> IF fresh THEN "new" ELSE "again",
                  ret |-> None]

DataTrie_insert_no_data(self, word) ==
    LET characters == get_characters(word) IN
    IF ~fits(word)
    THEN [self |-> self, panicked |-> TRUE, branch |-> "capacity", ret |-> None]
    ELSE LET root1 == entry_path(self.root, characters, TrieDataNode_new)
             current == unwrap(walk(root1, characters))
             fresh == ~TrieDataNode_is_associated(current)
             inc == usize_add(self.len, 1)
             current1 == IF fresh THEN TrieDataNode_associate(current) ELSE current
         IN IF fresh /\ inc.overflow /\ overflow_checks
            THEN [self |-> self, panicked |-> TRUE, branch |-> "overflow", ret |-> None]
            ELSE [self |-> [root |-> write(root1, characters, current1),
                            len |-> IF fresh THEN inc.val ELSE self.len],
                  panicked |-> FALSE,
                  branch |-> IF fresh THEN "new" ELSE "again",
                  ret |-> None]

DataTrie_remove(self, word) ==
    LET found == DataTrie_get_final_node(self, word)
        characters == get_characters(word)
        dec == usize_sub(self.len, 1)
    IN IF is_none(found)
       THEN [self |-> self, panicked |-> FALSE, branch |-> "absent", ret |-> None]
       ELSE LET current == unwrap(found) IN
            IF DOMAIN current.children # {}
            THEN LET c == TrieDataNode_clear_word_end_association(current, FALSE) IN
                 IF is_none(c.data)
                 THEN [self |-> self, panicked |-> FALSE, branch |-> "inner_not_word",
                       ret |-> None]
                 ELSE IF dec.overflow /\ overflow_checks
                 THEN [self |-> self, panicked |-> TRUE, branch |-> "overflow", ret |-> None]
                 ELSE [self |-> [root |-> write(self.root, characters, c.self),
                                 len |-> dec.val],
                       panicked |-> FALSE, branch |-> "inner", ret |-> c.data]
            ELSE LET r == TrieDataNode_remove_one_word(self.root, characters) IN
                 IF r.panicked
                 THEN [self |-> self, panicked |-> TRUE, branch |-> "unwrap", ret |-> None]
                 ELSE IF is_none(r.data)
                 THEN [self |-> [self EXCEPT !.root = r.self],
                       panicked |-> FALSE, branch |-> "leaf_not_word",
                       ret |-> Some(<<>>)]
                 ELSE IF dec.overflow /\ overflow_checks
                 THEN [self |-> self, panicked |-> TRUE, branch |-> "overflow", ret |-> None]
                 ELSE [self |-> [root |-> r.self, len |-> dec.val],
                       panicked |-> FALSE, branch |-> "leaf", ret |-> r.data]

DataTrie_remove_prefix(self, prefix) ==
    LET found == DataTrie_get_final_node(self, prefix)
        characters == get_characters(prefix)
    IN IF is_none(found)
       THEN [self |-> self, panicked |-> FALSE, branch |-> "absent", ret |-> None]
       ELSE LET current == unwrap(found)
                r == TrieDataNode_collect_children(current, iter(DOMAIN current.children))
                dec == usize_sub(self.len, r.num_removed)
            IN IF dec.overflow /\ overflow_checks
               THEN [self |-> self, panicked |-> TRUE, branch |-> "overflow", ret |-> None]
               ELSE [self |-> [root |-> write(self.root, characters,
                                              TrieDataNode_clear_children(current)),
                               len |-> dec.val],
                     panicked |-> FALSE, branch |-> "found", ret |-> Some(r.found_data)]

\* a clear_data that takes the association away with the data
DataTrie_clear_data_removes_word(self, word) ==
    LET found == DataTrie_get_final_node(self, word)
    IN IF is_none(found)
       THEN [self |-> self, panicked |-> FALSE, branch |-> "absent", ret |-> None]
       ELSE LET c == TrieDataNode_clear_word_end_association(unwrap(found), FALSE)
            IN [self |-> [self EXCEPT !.root = write(self.root, get_characters(word), c.self)],
                panicked |-> FALSE,
                branch |-> IF is_some(c.data) THEN "word" ELSE "not_word",
                ret |-> c.data]

DataTrie_clear_data(self, word) ==
    LET found == DataTrie_get_final_node(self, word)
    IN IF is_none(found)
       THEN [self |-> self, panicked |-> FALSE, branch |-> "absent", ret |-> None]
       ELSE LET c == TrieDataNode_clear_word_end_association(unwrap(found), TRUE)
            IN [self |-> [self EXCEPT !.root = write(self.root, get_characters(word), c.self)],
                panicked |-> FALSE,
                branch |-> IF is_some(c.data) THEN "word" ELSE "not_word",
                ret |-> c.data]

DataTrie_clear(self) ==
    [self |-> [root |-> TrieDataNode_clear_children(self.root), len |-> 0],
     panicked |-> FALSE, branch |-> "clear", ret |-> None]

\* a + that always merges rhs into self
DataTrie_add_always_into_self(self, rhs) ==
    [self |-> [self EXCEPT !.root = TrieDataNode_add_assign(self.root, rhs.root)],
     panicked |-> FALSE, branch |-> "into_self", ret |-> None]

\* self + rhs
DataTrie_add(self, rhs) ==
    LET smaller == IF usize_lt(self.len, rhs.len) THEN self ELSE rhs
        bigger == IF usize_lt(self.len, rhs.len) THEN rhs ELSE self
    IN [self |-> [bigger EXCEPT !.root = TrieDataNode_add_assign(bigger.root, smaller.root)],
        panicked |-> FALSE,
        branch |-> IF usize_lt(self.len, rhs.len) THEN "into_rhs" ELSE "into_self",
        ret |-> None]

\* self += rhs
DataTrie_add_assign(self, rhs) ==
    [self |-> [self EXCEPT !.root = TrieDataNode_add_assign(self.root, rhs.root)],
     panicked |-> FALSE, branch |-> "into_self", ret |-> None]

\* self == other
DataTrie_eq(self, other) == TrieDataNode_eq(self.root, other.root)

-----------------------------------------------------------------------------
(* TrieNode, src/src/trie_node.rs: the generic node, association only *)

\* enum NodeAssociation
NodeAssociation_Data(list) == [tag |-> "Data", data |-> list]
NodeAssociation_NoData == [tag |-> "NoData", data |-> <<>>]
NodeAssociation_NoAssociation == [tag |-> "NoAssociation", data |-> <<>>]

TrieNode_is_associated(self) ==
    self.word_end_association # NodeAssociation_NoAssociation

TrieNode_associate(self, data) ==
    IF ~TrieNode_is_associated(self)
    THEN [self EXCEPT !.word_end_association =
             IF data THEN NodeAssociation_Data(<<>>) ELSE NodeAssociation_NoData]
    ELSE self

-----------------------------------------------------------------------------
(* The client program: a sequence of public calls on two tries of one type *)

NoCall == [op |-> "new", which |-> 1, word |-> <<>>, data |-> 0, branch |-> "new", ret |-> None]

Call(op, which, word, data, r) ==
    [op |-> op, which |-> which, word |-> word, data |-> data, branch |-> r.branch,
     ret |-> IF "ret" \in DOMAIN r THEN r.ret ELSE None]

Init ==
    /\ kind \in {"Trie", "DataTrie"}
    /\ overflow_checks \in BOOLEAN
    /\ trie_1 = Trie_new
    /\ trie_2 = Trie_new
    /\ data_trie_1 = DataTrie_new
    /\ data_trie_2 = DataTrie_new
    /\ panicked = FALSE
    /\ ops = 0
    /\ last = NoCall

Ready(k) == kind = k /\ ~panicked /\ ops < MaxOps

\* a call on trie_<which> that yielded r
TrieCall(op, which, word, r) ==
    /\ trie_1' = IF which = 1 /\ ~r.panicked THEN r.self ELSE trie_1
    /\ trie_2' = IF which = 2 /\ ~r.panicked THEN r.self ELSE trie_2
    /\ panicked' = r.panicked
    /\ ops' = ops + 1
    /\ last' = Call(op, which, word, 0, r)
    /\ UNCHANGED <<kind, overflow_checks, data_trie_1, data_trie_2>>

\* a call on data_trie_<which> that yielded r
DataTrieCall(op, which, word, data, r) ==
    /\ data_trie_1' = IF which = 1 /\ ~r.panicked THEN r.self ELSE data_trie_1
    /\ data_trie_2' = IF which = 2 /\ ~r.panicked THEN r.self ELSE data_trie_2
    /\ panicked' = r.panicked
    /\ ops' = ops + 1
    /\ last' = Call(op, which, word, data, r)
    /\ UNCHANGED <<kind, overflow_checks, trie_1, trie_2>>

trie(which) == IF which = 1 THEN trie_1 ELSE trie_2
data_trie(which) == IF which = 1 THEN data_trie_1 ELSE data_trie_2

TrieInsert(which) ==
    /\ Ready("Trie")
    /\ \E word \in Words :
          TrieCall("insert", which, word, Trie_insert(trie(which), word))

TrieRemove(which) ==
    /\ Ready("Trie")
    /\ \E word \in Words :
          TrieCall("remove", which, word, Trie_remove(trie(which), word))

TrieRemovePrefix(which) ==
    /\ Ready("Trie")
    /\ \E word \in Words :
          TrieCall("remove_prefix", which, word, Trie_remove_prefix(trie(which), word))

TrieClear(which) ==
    /\ Ready("Trie")
    /\ TrieCall("clear", which, <<>>, Trie_clear(trie(which)))

\* trie_1 = trie_1 + trie_2; the client then makes a new trie_2
TrieAdd ==
    /\ Ready("Trie")
    /\ LET r == Trie_add(trie_1, trie_2)
       IN /\ trie_1' = r.self
          /\ trie_2' = Trie_new
          /\ last' = Call("add", 1, <<>>, 0, r)
    /\ ops' = ops + 1
    /\ UNCHANGED <<kind, overflow_checks, data_trie_1, data_trie_2, panicked>>

\* trie_1 += trie_2; the client then makes a new trie_2
TrieAddAssign ==
    /\ Ready("Trie")
    /\ LET r == Trie_add_assign(trie_1, trie_2)
       IN /\ trie_1' = r.self
          /\ trie_2' = Trie_new
          /\ last' = Call("add_assign", 1, <<>>, 0, r)
    /\ ops' = ops + 1
    /\ UNCHANGED <<kind, overflow_checks, data_trie_1, data_trie_2, panicked>>

DataTrieInsert(which) ==
    /\ Ready("DataTrie")
    /\ \E word \in Words, d \in Data :
          DataTrieCall("insert", which, word, d, DataTrie_insert(data_trie(which), word, d))

DataTrieInsertNoData(which) ==
    /\ Ready("DataTrie")
    /\ \E word \in Words :
          DataTrieCall("insert_no_data", which, word, 0,
                       DataTrie_insert_no_data(data_trie(which), word))

DataTrieRemove(which) ==
    /\ Ready("DataTrie")
    /\ \E word \in Words :
          DataTrieCall("remove", which, word, 0, DataTrie_remove(data_trie(which), word))

DataTrieRemovePrefix(which) ==
    /\ Ready("DataTrie")
    /\ \E word \in Words :
          DataTrieCall("remove_prefix", which, word, 0,
                       DataTrie_remove_prefix(data_trie(which), word))

DataTrieClearData(which) ==
    /\ Ready("DataTrie")
    /\ \E word \in Words :
          DataTrieCall("clear_data", which, word, 0,
                       DataTrie_clear_data(data_trie(which), word))

DataTrieClear(which) ==
    /\ Ready("DataTrie")
    /\ DataTrieCall("clear", which, <<>>, 0, DataTrie_clear(data_trie(which)))

\* data_trie_1 = data_trie_1 + data_trie_2; the client then makes a new data_trie_2
DataTrieAdd ==
    /\ Ready("DataTrie")
    /\ LET r == DataTrie_add(data_trie_1, data_trie_2)
       IN /\ data_trie_1' = r.self
          /\ data_trie_2' = DataTrie_new
          /\ last' = Call("add", 1, <<>>, 0, r)
    /\ ops' = ops + 1
    /\ UNCHANGED <<kind, overflow_checks, trie_1, trie_2, panicked>>

\* data_trie_1 += data_trie_2; the client then makes a new data_trie_2
DataTrieAddAssign ==
    /\ Ready("DataTrie")
    /\ LET r == DataTrie_add_assign(data_trie_1, data_trie_2)
       IN /\ data_trie_1' = r.self
          /\ data_trie_2' = DataTrie_new
          /\ last' = Call("add_assign", 1, <<>>, 0, r)
    /\ ops' = ops + 1
    /\ UNCHANGED <<kind, overflow_checks, trie_1, trie_2, panicked>>

\* a client working on one trie
Next ==
    \/ TrieInsert(1)
    \/ TrieRemove(1)
    \/ TrieRemovePrefix(1)
    \/ TrieClear(1)
    \/ DataTrieInsert(1)
    \/ DataTrieInsertNoData(1)
    \/ DataTrieRemove(1)
    \/ DataTrieRemovePrefix(1)
    \/ DataTrieClearData(1)
    \/ DataTrieClear(1)

Spec == Init /\ [][Next]_vars

\* a client that fills two tries and merges the second into the first
MergeNext ==
    \/ TrieInsert(1)
    \/ TrieInsert(2)
    \/ TrieRemove(1)
    \/ TrieAdd
    \/ TrieAddAssign
    \/ DataTrieInsert(1)
    \/ DataTrieInsert(2)
    \/ DataTrieInsertNoData(1)
    \/ DataTrieInsertNoData(2)
    \/ DataTrieRemove(1)
    \/ DataTrieAdd
    \/ DataTrieAddAssign

MergeSpec == Init /\ [][MergeNext]_vars

\* a client of the dataless Trie that only inserts and removes
InsertRemoveNext ==
    \/ TrieInsert(1)
    \/ TrieRemove(1)

InsertRemoveInit == Init /\ kind = "Trie"

InsertRemoveSpec == InsertRemoveInit /\ [][InsertRemoveNext]_vars

\* a client that builds two tries by insertions only
EqualsNext ==
    \/ TrieInsert(1)
    \/ TrieInsert(2)
    \/ DataTrieInsert(1)
    \/ DataTrieInsert(2)

EqualsSpec == Init /\ [][EqualsNext]_vars

\* a client that inserts and removes the words of one chain a, ab, abc, abcd
MaxDeepOps == 5

DeepWords == { <<"a">>, <<"a", "b">>, <<"a", "b", "c">>, <<"a", "b", "c", "d">> }

DeepReady(k) == kind = k /\ ~panicked /\ ops < MaxDeepOps

TrieInsertDeep ==
    /\ DeepReady("Trie")
    /\ \E word \in DeepWords : TrieCall("insert", 1, word, Trie_insert(trie_1, word))

TrieRemoveDeep ==
    /\ DeepReady("Trie")
    /\ \E word \in DeepWords : TrieCall("remove", 1, word, Trie_remove(trie_1, word))

DataTrieInsertDeep ==
    /\ DeepReady("DataTrie")
    /\ \E word \in DeepWords, d \in Data :
          DataTrieCall("insert", 1, word, d, DataTrie_insert(data_trie_1, word, d))

DataTrieRemoveDeep ==
    /\ DeepReady("DataTrie")
    /\ \E word \in DeepWords :
          DataTrieCall("remove", 1, word, 0, DataTrie_remove(data_trie_1, word))

PruneNext ==
    \/ TrieInsertDeep
    \/ TrieRemoveDeep
    \/ DataTrieInsertDeep
    \/ DataTrieRemoveDeep

PruneSpec == Init /\ [][PruneNext]_vars

\* a client that fills two tries by insertions and merges them
MergeOrderNext ==
    \/ TrieInsert(1)
    \/ TrieInsert(2)
    \/ TrieAdd
    \/ TrieAddAssign
    \/ DataTrieInsert(1)
    \/ DataTrieInsert(2)
    \/ DataTrieAdd
    \/ DataTrieAddAssign

MergeOrderSpec == Init /\ [][MergeOrderNext]_vars

\* a client that works on two dataless tries with insert, remove and remove_prefix
HistoryNext ==
    \/ TrieInsert(1)
    \/ TrieInsert(2)
    \/ TrieRemove(1)
    \/ TrieRemove(2)
    \/ TrieRemovePrefix(1)
    \/ TrieRemovePrefix(2)

HistoryInit == Init /\ kind = "Trie"

HistorySpec == HistoryInit /\ [][HistoryNext]_vars

\* the generic TrieNode with the association of a node of the trie in use
AsTrieNode(T, D, word) ==
    [children |-> FxHashMap_default,
     word_end_association |->
        IF kind = "Trie"
        THEN IF unwrap(Trie_get_final_node(T, word)).word_end
             THEN NodeAssociation_NoData ELSE NodeAssociation_NoAssociation
        ELSE LET n == unwrap(DataTrie_get_final_node(D, word))
             IN IF is_some(n.word_end_data) THEN NodeAssociation_Data(unwrap(n.word_end_data))
                ELSE NodeAssociation_NoAssociation]

\* a node-level call that yields the node `after`; the tries stay as they are
NodeCall(op, word, again, after) ==
    /\ last' = [op |-> op, which |-> 1, word |-> word, data |-> 0,
                branch |-> IF again THEN "again" ELSE "new", ret |-> Some(after)]
    /\ ops' = ops + 1
    /\ UNCHANGED <<kind, overflow_checks, trie_1, trie_2, data_trie_1, data_trie_2, panicked>>

\* associate() on the node of trie_1 at the end of a path that exists
TrieDatalessNodeAssociate ==
    /\ Ready("Trie")
    /\ \E word \in Words :
          /\ is_some(Trie_get_final_node(trie_1, word))
          /\ LET node == unwrap(Trie_get_final_node(trie_1, word))
             IN NodeCall("associate", word, TrieDatalessNode_is_associated(node),
                         TrieDatalessNode_associate(node))

\* associate() on the node of data_trie_1 at the end of a path that exists
TrieDataNodeAssociate ==
    /\ Ready("DataTrie")
    /\ \E word \in Words :
          /\ is_some(DataTrie_get_final_node(data_trie_1, word))
          /\ LET node == unwrap(DataTrie_get_final_node(data_trie_1, word))
             IN NodeCall("associate", word, TrieDataNode_is_associated(node),
                         TrieDataNode_associate(node))

\* associate(data) of the generic TrieNode on a node with the same association
TrieNodeAssociate ==
    /\ ~panicked /\ ops < MaxOps
    /\ \E word \in Words :
          /\ is_some(IF kind = "Trie" THEN Trie_get_final_node(trie_1, word)
                                      ELSE DataTrie_get_final_node(data_trie_1, word))
          /\ LET node == AsTrieNode(trie_1, data_trie_1, word)
             IN NodeCall("TrieNode::associate", word, TrieNode_is_associated(node),
                         TrieNode_associate(node, kind = "DataTrie"))

\* a client inside the crate: tries filled by insertions, associate() called on their nodes
AssociateNext ==
    \/ TrieInsert(1)
    \/ DataTrieInsert(1)
    \/ TrieDatalessNodeAssociate
    \/ TrieDataNodeAssociate
    \/ TrieNodeAssociate

AssociateSpec == Init /\ [][AssociateNext]_vars

-----------------------------------------------------------------------------
(* What a caller observes *)

Range(seq) == { seq[i] : i \in 1..Len(seq) }

IsPrefix(p, w) == Len(p) <= Len(w) /\ SubSeq(w, 1, Len(p)) = p

IsStrictPrefix(p, w) == Len(p) < Len(w) /\ IsPrefix(p, w)

\* contains(w), len(), get_all() and get_data(w, false) of the trie in use, given
\* as the pair (Trie value, DataTrie value) of which `kind` selects one
Contains(T, D, w) == IF kind = "Trie" THEN Trie_contains(T, w) ELSE DataTrie_contains(D, w)

LenOf(T, D) == IF kind = "Trie" THEN Trie_len(T) ELSE DataTrie_len(D)

GetAll(T, D) == IF kind = "Trie" THEN Trie_get_all(T) ELSE DataTrie_get_all(D)

DataOf(T, D, w) == IF kind = "Trie" THEN None ELSE DataTrie_get_data(D, w, FALSE)

Stored(T, D) == { w \in Words : Contains(T, D, w) }

\* the step just taken was a call of `op` that returned
Returned(op) == last'.op = op /\ ops' = ops + 1 /\ ~panicked'

-----------------------------------------------------------------------------
(* Claims *)

\* C1: dataless Trie, after any sequence of insert and remove calls: len() equals
\* the number of distinct words returned by get_all().
C1_LenIsWordCount ==
    kind = "Trie" => Trie_len(trie_1) = Cardinality(Range(Trie_get_all(trie_1)))

\* C2: DataTrie, after any sequence of insert, insert_no_data, remove,
\* remove_prefix, clear_data and clear: len() equals the number of distinct words
\* in get_all().
C2_DataLenIsWordCount ==
    kind = "DataTrie" =>
        DataTrie_len(data_trie_1) = Cardinality(Range(DataTrie_get_all(data_trie_1)))

\* C3: a merge (a + b or a += b) of two tries whose counters are exact yields a
\* trie whose len() is the number of distinct words it contains, the size of the
\* union of the operands' word sets.
C3_MergeLenIsUnion ==
    [][ ( /\ last'.op \in {"add", "add_assign"} /\ ops' = ops + 1
          /\ LenOf(trie_1, data_trie_1) = Cardinality(Range(GetAll(trie_1, data_trie_1)))
          /\ LenOf(trie_2, data_trie_2) = Cardinality(Range(GetAll(trie_2, data_trie_2))) )
        => /\ LenOf(trie_1', data_trie_1')
                = Cardinality(Range(GetAll(trie_1', data_trie_1')))
           /\ LenOf(trie_1', data_trie_1')
                = Cardinality(Range(GetAll(trie_1, data_trie_1))
                              \cup Range(GetAll(trie_2, data_trie_2))) ]_vars

\* C4: after insert(k), insert(k, d) or insert_no_data(k) has returned,
\* contains(k) is true.
C4_InsertThenContains ==
    (~panicked /\ last.op \in {"insert", "insert_no_data"})
        => Contains(trie_1, data_trie_1, last.word)

C4_Witness ==
    /\ kind = "DataTrie" /\ ~panicked
    /\ last.op = "insert_no_data" /\ last.branch = "new" /\ last.word = <<"a", "b">>
    /\ DataTrie_contains(data_trie_1, <<"a", "b">>)

\* C5: after remove(k) has returned, contains(k) is false, whether k's terminal
\* node was a leaf or had children.
C5_RemoveThenNotContains ==
    (~panicked /\ last.op = "remove") => ~Contains(trie_1, data_trie_1, last.word)

C5_Witness ==
    /\ kind = "Trie" /\ ~panicked
    /\ last.op = "remove" /\ last.branch = "inner" /\ last.word = <<"a">>
    /\ Trie_contains(trie_1, <<"a", "b">>)
    /\ ~Trie_contains(trie_1, <<"a">>)

\* C6: remove(k) removes only k: for every word w other than k, contains(w) and
\* (DataTrie) the data list of w are the same before and after the call.
C6_RemoveOnlyThatWord ==
    [][ Returned("remove") =>
            \A w \in Words \ {last'.word} :
                /\ Contains(trie_1', data_trie_1', w) = Contains(trie_1, data_trie_1, w)
                /\ DataOf(trie_1', data_trie_1', w) = DataOf(trie_1, data_trie_1, w) ]_vars

C6_Witness ==
    /\ kind = "DataTrie" /\ ~panicked
    /\ last.op = "remove" /\ last.branch = "leaf" /\ last.word = <<"a", "b">>
    /\ is_some(last.ret)
    /\ DataTrie_contains(data_trie_1, <<"a">>)
    /\ DataTrie_contains(data_trie_1, <<"a", "c">>)
    /\ ~DataTrie_contains(data_trie_1, <<"a", "b">>)

\* C7: remove(k) for a key k that is not a stored word is a no-op: the set of
\* stored words, every word's data and len() are unchanged, and the call returns.
C7_RemoveAbsentIsNoOp ==
    [][ ( /\ last'.op = "remove" /\ ops' = ops + 1
          /\ ~Contains(trie_1, data_trie_1, last'.word) )
        => /\ ~panicked'
           /\ Stored(trie_1', data_trie_1') = Stored(trie_1, data_trie_1)
           /\ \A w \in Words : DataOf(trie_1', data_trie_1', w) = DataOf(trie_1, data_trie_1, w)
           /\ LenOf(trie_1', data_trie_1') = LenOf(trie_1, data_trie_1) ]_vars

\* C8: no sequence of public calls reaches a fatal error: the unwrap in
\* remove_one_word finds the child, push_data finds an association, and no
\* `len -= ...` takes the unsigned counter below zero (neither as a panic nor as
\* a wrapped value).
C8_NoFatalError ==
    /\ ~(panicked /\ last.branch \in {"unwrap", "overflow"})
    /\ ~usize_wrapped(LenOf(trie_1, data_trie_1))

\* C9: after remove_prefix(p) on an existing path, a word w is stored iff it was
\* stored before and p is not a strict prefix of w.
C9_RemovePrefixKeepsTheRest ==
    [][ (Returned("remove_prefix") /\ last'.branch = "found") =>
            \A w \in Words :
                Contains(trie_1', data_trie_1', w)
                    <=> (Contains(trie_1, data_trie_1, w) /\ ~IsStrictPrefix(last'.word, w)) ]_vars

C9_Witness ==
    /\ kind = "DataTrie" /\ ~panicked
    /\ last.op = "remove_prefix" /\ last.branch = "found" /\ last.word = <<"a">>
    /\ is_some(last.ret) /\ Len(unwrap(last.ret)) = 2
    /\ DataTrie_contains(data_trie_1, <<"a">>)
    /\ ~DataTrie_contains(data_trie_1, <<"a", "b">>)

\* C10: remove_prefix(p) decreases len() by exactly the number of stored words
\* that have p as a strict prefix, and the subtraction never underflows.
C10_RemovePrefixLen ==
    [][ (last'.op = "remove_prefix" /\ ops' = ops + 1) =>
            LET gone == { w \in Stored(trie_1, data_trie_1) : IsStrictPrefix(last'.word, w) }
            IN /\ ~panicked'
               /\ ~usize_lt(LenOf(trie_1, data_trie_1), Cardinality(gone))
               /\ LenOf(trie_1', data_trie_1') = LenOf(trie_1, data_trie_1) - Cardinality(gone) ]_vars

-----------------------------------------------------------------------------
(* Data lists as multisets *)

\* how many times item d occurs in the list
Occurrences(list, d) == Cardinality({ i \in 1..Len(list) : list[i] = d })

\* how many times item d occurs in the data lists of the words S stored in D
RECURSIVE ItemsOf(_, _, _)
ItemsOf(D, S, d) ==
    IF S = {} THEN 0
    ELSE LET w == CHOOSE x \in S : TRUE
         IN Occurrences(unwrap(DataTrie_get_data(D, w, FALSE)), d) + ItemsOf(D, S \ {w}, d)

\* C11: DataTrie::remove(k) on a stored word k returns Some(list), list being
\* exactly the data accumulated for k in insertion order (empty after
\* insert_no_data), on the leaf path and on the path with children; the data of
\* every other word stays where it was.
C11_RemoveReturnsData ==
    [][ ( /\ Returned("remove") /\ kind = "DataTrie"
          /\ DataTrie_contains(data_trie_1, last'.word) )
        => /\ is_some(last'.ret)
           /\ last'.ret = DataTrie_get_data(data_trie_1, last'.word, FALSE)
           /\ \A w \in Words \ {last'.word} :
                 DataTrie_get_data(data_trie_1', w, FALSE)
                     = DataTrie_get_data(data_trie_1, w, FALSE) ]_vars

C11_Witness ==
    /\ kind = "DataTrie" /\ ~panicked
    /\ last.op = "remove" /\ last.branch = "inner" /\ last.word = <<"a">>
    /\ last.ret = Some(<<2, 1>>)
    /\ DataTrie_get_data(data_trie_1, <<"a", "b">>, FALSE) = Some(<<>>)

\* C12: DataTrie::remove(k) returns None whenever k is not a stored word at the
\* time of the call: path missing, or path present with a terminal node that is
\* not a word end (a childless one and the root of an empty trie included).
C12_RemoveAbsentReturnsNone ==
    [][ ( /\ last'.op = "remove" /\ ops' = ops + 1 /\ kind = "DataTrie"
          /\ ~DataTrie_contains(data_trie_1, last'.word) )
        => (~panicked' /\ last'.ret = None) ]_vars

\* C13: DataTrie::remove_prefix(p) returns None iff a token of p's path is absent,
\* and then changes nothing; otherwise it returns Some(list) whose items are, as
\* a multiset, the data items of the words the call removes (the stored words
\* that strictly extend p); the data of p itself is not taken and stays with p.
C13_RemovePrefixReturnsData ==
    [][ (Returned("remove_prefix") /\ kind = "DataTrie") =>
            LET p == last'.word
                path == is_some(DataTrie_get_final_node(data_trie_1, p))
                gone == { w \in Stored(trie_1, data_trie_1) : IsStrictPrefix(p, w) }
            IN /\ is_none(last'.ret) <=> ~path
               /\ ~path => data_trie_1' = data_trie_1
               /\ path =>
                    /\ Range(unwrap(last'.ret)) \subseteq Data
                    /\ \A d \in Data :
                          Occurrences(unwrap(last'.ret), d) = ItemsOf(data_trie_1, gone, d)
               /\ DataTrie_get_data(data_trie_1', p, FALSE)
                    = DataTrie_get_data(data_trie_1, p, FALSE) ]_vars

C13_Witness ==
    /\ kind = "DataTrie" /\ ~panicked
    /\ last.op = "remove_prefix" /\ last.branch = "found" /\ last.word = <<"a">>
    /\ is_some(last.ret)
    /\ Occurrences(unwrap(last.ret), 1) = 1 /\ Occurrences(unwrap(last.ret), 2) = 1
    /\ DataTrie_get_data(data_trie_1, <<"a">>, FALSE) = Some(<<2>>)

\* C14: DataTrie keeps every inserted item in insertion order: insert(k, d)
\* appends d to the list get_data(k, false) returns (starting a list when k was
\* not stored), and a call on another key that is an insert, insert_no_data,
\* remove or clear_data leaves k's list as it was.
C14_InsertAppends ==
    [][ (kind = "DataTrie" /\ ops' = ops + 1 /\ ~panicked') =>
            /\ last'.op = "insert" =>
                  LET before == DataTrie_get_data(data_trie_1, last'.word, FALSE)
                  IN DataTrie_get_data(data_trie_1', last'.word, FALSE)
                       = Some((IF is_some(before) THEN unwrap(before) ELSE <<>>)
                              \o <<last'.data>>)
            /\ last'.op \in {"insert", "insert_no_data", "remove", "clear_data"} =>
                  \A k \in Words \ {last'.word} :
                      DataTrie_get_data(data_trie_1', k, FALSE)
                          = DataTrie_get_data(data_trie_1, k, FALSE) ]_vars

C14_Witness ==
    /\ kind = "DataTrie" /\ ~panicked
    /\ last.op = "insert" /\ last.branch = "again" /\ last.word = <<"a">> /\ last.data = 1
    /\ DataTrie_get_data(data_trie_1, <<"a">>, FALSE) = Some(<<2, 1, 1>>)
    /\ DataTrie_contains(data_trie_1, <<"a", "b">>)

-----------------------------------------------------------------------------
(* Queries of the trie in use *)

Get(T, D, q) == IF kind = "Trie" THEN Trie_get(T, q) ELSE DataTrie_get(D, q)

GetLongest(T, D, rev) ==
    IF kind = "Trie" THEN Trie_get_longest(T, rev) ELSE DataTrie_get_longest(D, rev)

GetShortest(T, D, rev) ==
    IF kind = "Trie" THEN Trie_get_shortest(T, rev) ELSE DataTrie_get_shortest(D, rev)

\* the stored words that start with q
StartingWith(T, D, q) == { w \in Stored(T, D) : IsPrefix(q, w) }

\* the list has no element twice
NoRepeat(list) == Len(list) = Cardinality(Range(list))

\* C15: get(q), when it returns a list, returns exactly the stored words that
\* start with q, each once: q itself if stored, words that are strict prefixes
\* of other stored words, and no string that is not a stored word.
C15_GetIsWordsWithPrefix ==
    \A q \in Words :
        LET r == Get(trie_1, data_trie_1, q)
        IN is_some(r) =>
              /\ Range(unwrap(r)) = StartingWith(trie_1, data_trie_1, q)
              /\ NoRepeat(unwrap(r))

C15_Witness ==
    /\ kind = "Trie" /\ ~panicked
    /\ Stored(trie_1, data_trie_1) = { <<>>, <<"a">>, <<"a", "b">> }
    /\ is_some(Trie_get(trie_1, <<"a">>))
    /\ Range(unwrap(Trie_get(trie_1, <<"a">>))) = { <<"a">>, <<"a", "b">> }
    /\ Len(unwrap(Trie_get(trie_1, <<>>))) = 3

\* C16: get(q) returns None whenever no stored word starts with q: on an empty
\* trie (q = "" included), for a q whose path is missing, and for a q all of
\* whose matching words were removed by remove or remove_prefix.
C16_GetNoneWhenNoWord ==
    \A q \in Words :
        StartingWith(trie_1, data_trie_1, q) = {} => Get(trie_1, data_trie_1, q) = None

\* C17: get_data(q, false) returns None iff q is not a stored word (also when q
\* is only a prefix of stored words); otherwise it returns q's own list: an
\* insert on a word that extends q never shows in it.
C17_GetDataExact ==
    /\ [](kind = "DataTrie" =>
            \A q \in Words :
                is_none(DataTrie_get_data(data_trie_1, q, FALSE))
                    <=> ~DataTrie_contains(data_trie_1, q))
    /\ [][ (Returned("insert") /\ kind = "DataTrie") =>
              \A q \in Words :
                  IsStrictPrefix(q, last'.word) =>
                      DataTrie_get_data(data_trie_1', q, FALSE)
                          = DataTrie_get_data(data_trie_1, q, FALSE) ]_vars

C17_Witness ==
    /\ kind = "DataTrie" /\ ~panicked
    /\ last.op = "insert" /\ last.word = <<"a", "b">> /\ last.data = 2
    /\ DataTrie_get_data(data_trie_1, <<"a">>, FALSE) = Some(<<1>>)
    /\ DataTrie_get_data(data_trie_1, <<"a", "b">>, FALSE) = Some(<<2>>)
    /\ DataTrie_get_data(data_trie_1, <<>>, FALSE) = None
    /\ is_some(DataTrie_get_data(data_trie_1, <<>>, TRUE))

\* C18: get_data(q, true) returns, as a multiset, exactly the data items of all
\* stored words that start with q (q's own included): nothing of a removed word,
\* nothing of a word outside the prefix.
C18_GetDataSoft ==
    kind = "DataTrie" =>
        \A q \in Words :
            LET r == DataTrie_get_data(data_trie_1, q, TRUE)
            IN is_some(r) =>
                  /\ Range(unwrap(r)) \subseteq Data
                  /\ \A d \in Data :
                        Occurrences(unwrap(r), d)
                            = ItemsOf(data_trie_1, StartingWith(trie_1, data_trie_1, q), d)

C18_Witness ==
    /\ kind = "DataTrie" /\ ~panicked
    /\ last.op = "remove" /\ last.word = <<"a", "c">> /\ last.ret = Some(<<1>>)
    /\ DataTrie_get_data(data_trie_1, <<"a">>, FALSE) = Some(<<1>>)
    /\ DataTrie_get_data(data_trie_1, <<"a", "b">>, FALSE) = Some(<<2>>)
    /\ Len(unwrap(DataTrie_get_data(data_trie_1, <<"a">>, TRUE))) = 2

C20_MergeIsUnion ==
    [][ (last'.op \in {"add", "add_assign"} /\ ops' = ops + 1) =>
            Stored(trie_1', data_trie_1')
                = Stored(trie_1, data_trie_1) \cup Stored(trie_2, data_trie_2) ]_vars

-----------------------------------------------------------------------------
(* Merge and equality *)

\* t1 == t2 for the trie type in use
Eq(T1, D1, T2, D2, rev) == IF kind = "Trie" THEN Trie_eq(T1, T2, rev) ELSE DataTrie_eq(D1, D2)

\* the two root subtrees are the same tree: the same child tokens at every node,
\* the same association (and data list) at every node
SameTree(T1, D1, T2, D2) == IF kind = "Trie" THEN T1.root = T2.root ELSE D1.root = D2.root

\* C21: DataTrie a += b: a key stored in both operands carries a's list followed
\* by b's list, a key stored in one operand carries that operand's list (a key
\* with data in a and an empty list in b keeps a's list).
C21_MergeCombinesData ==
    [][ (last'.op = "add_assign" /\ ops' = ops + 1 /\ kind = "DataTrie") =>
            \A w \in Words :
                LET a == DataTrie_get_data(data_trie_1, w, FALSE)
                    b == DataTrie_get_data(data_trie_2, w, FALSE)
                IN DataTrie_get_data(data_trie_1', w, FALSE)
                     = IF is_some(a) /\ is_some(b) THEN Some(unwrap(a) \o unwrap(b))
                       ELSE IF is_some(a) THEN a ELSE b ]_vars

\* C22: merge commutes on disjoint key sets: a + b == b + a (Trie and DataTrie).
C22_MergeCommutes ==
    (Stored(trie_1, data_trie_1) \cap Stored(trie_2, data_trie_2) = {}) =>
        \A rev \in BOOLEAN :
            Eq(Trie_add(trie_1, trie_2).self, DataTrie_add(data_trie_1, data_trie_2).self,
               Trie_add(trie_2, trie_1).self, DataTrie_add(data_trie_2, data_trie_1).self, rev)

\* C24: == on two tries is true iff their root subtrees are recursively equal:
\* the same set of child tokens at every node (as a set, whatever the order the
\* child tables are visited in), the same association at every node and, for the
\* DataTrie, equal data lists.
C24_EqIsStructural ==
    \A rev \in BOOLEAN :
        Eq(trie_1, data_trie_1, trie_2, data_trie_2, rev)
            <=> SameTree(trie_1, data_trie_1, trie_2, data_trie_2)

\* the trie built from empty by inserting the words of S, one after the other
RECURSIVE BuildTrie(_)
BuildTrie(S) ==
    IF S = {} THEN Trie_new
    ELSE LET w == CHOOSE x \in S : TRUE IN Trie_insert(BuildTrie(S \ {w}), w).self

\* the same for a DataTrie, every word inserted once with the data item d
RECURSIVE BuildDataTrie(_, _)
BuildDataTrie(S, d) ==
    IF S = {} THEN DataTrie_new
    ELSE LET w == CHOOSE x \in S : TRUE
         IN DataTrie_insert(BuildDataTrie(S \ {w}, d), w, d).self

\* every word stored in the DataTrie carries the one data item d
OneItemEach(D, d) ==
    \A w \in Words : DataTrie_contains(D, w) => DataTrie_get_data(D, w, FALSE) = Some(<<d>>)

C25_SameWordsEqual ==
    \A rev \in BOOLEAN :
        /\ ( /\ Stored(trie_1, data_trie_1) = Stored(trie_2, data_trie_2)
             /\ \A w \in Words : DataOf(trie_1, data_trie_1, w) = DataOf(trie_2, data_trie_2, w) )
           => Eq(trie_1, data_trie_1, trie_2, data_trie_2, rev)
        /\ Stored(trie_1, data_trie_1) # Stored(trie_2, data_trie_2)
           => ~Eq(trie_1, data_trie_1, trie_2, data_trie_2, rev)

\* C26: clear() resets fully from any reachable state: afterwards len() = 0,
\* is_empty() is true, get_all() holds no word, contains(k) is false for every
\* k, and the trie compares equal to a freshly constructed empty trie.
C26_ClearResetsFully ==
    (~panicked /\ last.op = "clear") =>
        /\ LenOf(trie_1, data_trie_1) = 0
        /\ IF kind = "Trie" THEN Trie_is_empty(trie_1) ELSE DataTrie_is_empty(data_trie_1)
        /\ GetAll(trie_1, data_trie_1) = <<>>
        /\ \A k \in Words : ~Contains(trie_1, data_trie_1, k)
        /\ \A rev \in BOOLEAN : Eq(trie_1, data_trie_1, Trie_new, DataTrie_new, rev)

-----------------------------------------------------------------------------
(* Pruning, words without data, dead leaves *)

DeepStored == { w \in DeepWords : Contains(trie_1, data_trie_1, w) }

\* the four inserts of the chain have been made and remove("abc") is the fifth call
RemovesAbc ==
    /\ ops = 4 /\ ~panicked /\ DeepStored = DeepWords
    /\ last'.op = "remove" /\ last'.word = <<"a", "b", "c">> /\ ops' = 5

\* C27 as stated: after insert("a"); insert("ab"); insert("abc"); insert("abcd");
\* remove("abc") the stored words are exactly a, ab, abcd, find("abc") returns
\* None and find("abcd") still succeeds.
C27_MinimalPruning_AsStated ==
    [][ RemovesAbc =>
          /\ ~panicked'
          /\ DeepStored' = DeepWords \ {<<"a", "b", "c">>}
          /\ Get(trie_1', data_trie_1', <<"a", "b", "c">>) = None
          /\ is_some(Get(trie_1', data_trie_1', <<"a", "b", "c", "d">>)) ]_vars

\* C27: after insert("a"); insert("ab"); insert("abc"); insert("abcd");
\* remove("abc") the stored words are exactly a, ab, abcd, contains("abc") is
\* false, find("abc") returns Some(["abcd"]) (the node of abc stays, abcd goes
\* through it) and find("abcd") returns Some(["abcd"]).
C27_MinimalPruning ==
    [][ RemovesAbc =>
          /\ ~panicked'
          /\ DeepStored' = DeepWords \ {<<"a", "b", "c">>}
          /\ ~Contains(trie_1', data_trie_1', <<"a", "b", "c">>)
          /\ Get(trie_1', data_trie_1', <<"a", "b", "c">>) = Some(<< <<"a", "b", "c", "d">> >>)
          /\ Get(trie_1', data_trie_1', <<"a", "b", "c", "d">>) = Some(<< <<"a", "b", "c", "d">> >>)
      ]_vars

C27_Witness ==
    /\ kind = "Trie" /\ ~panicked /\ ops = 5
    /\ last.op = "remove" /\ last.branch = "inner" /\ last.word = <<"a", "b", "c">>
    /\ DeepStored = DeepWords \ {<<"a", "b", "c">>}
    /\ Trie_len(trie_1) = 3

C29_ClearData ==
    [][ (last'.op = "clear_data" /\ ops' = ops + 1 /\ kind = "DataTrie") =>
          LET k == last'.word IN
          /\ ~panicked'
          /\ IF DataTrie_contains(data_trie_1, k)
             THEN /\ last'.ret = DataTrie_get_data(data_trie_1, k, FALSE)
                  /\ DataTrie_contains(data_trie_1', k)
                  /\ DataTrie_get_data(data_trie_1', k, FALSE) = Some(<<>>)
                  /\ DataTrie_len(data_trie_1') = DataTrie_len(data_trie_1)
                  /\ \A w \in Words \ {k} :
                        /\ DataTrie_contains(data_trie_1', w) = DataTrie_contains(data_trie_1, w)
                        /\ DataTrie_get_data(data_trie_1', w, FALSE)
                              = DataTrie_get_data(data_trie_1, w, FALSE)
             ELSE /\ last'.ret = None
                  /\ data_trie_1' = data_trie_1 ]_vars

\* clear_data(a) returned the two items of a, in order, and ab kept its own
C29_Witness ==
    /\ kind = "DataTrie" /\ ~panicked
    /\ last.op = "clear_data" /\ last.branch = "word" /\ last.word = <<"a">>
    /\ last.ret = Some(<<2, 1>>)
    /\ DataTrie_get_data(data_trie_1, <<"a">>, FALSE) = Some(<<>>)
    /\ DataTrie_get_data(data_trie_1, <<"a", "b">>, FALSE) = Some(<<1>>)
    /\ DataTrie_len(data_trie_1) = 2

\* some node below this one has an empty child table and no association
RECURSIVE DeadLeafBelow(_)
DeadLeafBelow(node) ==
    \E char \in DOMAIN node.children :
        LET child == node.children[char] IN
        \/ /\ DOMAIN child.children = {}
           /\ IF kind = "Trie" THEN ~TrieDatalessNode_is_associated(child)
                               ELSE ~TrieDataNode_is_associated(child)
        \/ DeadLeafBelow(child)

\* C30: no dead leaves: whenever a mutating public call has returned, no node
\* other than the root has both an empty child table and no association.
C30_NoDeadLeaves ==
    ~DeadLeafBelow(IF kind = "Trie" THEN trie_1.root ELSE data_trie_1.root)

-----------------------------------------------------------------------------
(* The root, merge direction, counting *)

\* the root of the trie carries an association
RootAssociated(T, D) ==
    IF kind = "Trie" THEN TrieDatalessNode_is_associated(T.root)
    ELSE TrieDataNode_is_associated(D.root)

\* C31: in every reachable state the root node carries no association: no
\* public operation, insert / insert_no_data with the empty key and merge
\* included, ever marks the root as a word end.
C31_RootNeverAssociated ==
    ~RootAssociated(trie_1, data_trie_1) /\ ~RootAssociated(trie_2, data_trie_2)

\* the step is a merge of trie_2 into trie_1 (or the other way) that returned
Merges == last'.op \in {"add", "add_assign"} /\ ops' = ops + 1

\* in the merged trie every non-empty key with data in both operands has the
\* data of the operand `first` and then the data of the other operand
\* (first = 1: data_trie_1, first = 2: data_trie_2)
MergedInto(first) ==
    kind = "DataTrie" =>
          \A w \in Words \ {<<>>} :
             LET a == DataTrie_get_data(data_trie_1, w, FALSE)
                 b == DataTrie_get_data(data_trie_2, w, FALSE)
             IN (is_some(a) /\ is_some(b)) =>
                   DataTrie_get_data(data_trie_1', w, FALSE)
                     = IF first = 1 THEN Some(unwrap(a) \o unwrap(b))
                                    ELSE Some(unwrap(b) \o unwrap(a))

GrewByOne(before, after) == ~usize_add(before, 1).overflow /\ after = before + 1

\* C33: insert(k) increases len() by exactly 1 when k was not a stored word
\* (even when k's whole path existed already) and leaves len() unchanged when k
\* was stored.
C33_InsertCounts ==
    [][ Returned("insert") =>
          IF Contains(trie_1, data_trie_1, last'.word)
          THEN LenOf(trie_1', data_trie_1') = LenOf(trie_1, data_trie_1)
          ELSE GrewByOne(LenOf(trie_1, data_trie_1), LenOf(trie_1', data_trie_1')) ]_vars

\* C34: equality depends only on contents, not on history: two dataless Tries
\* that store the same set of words compare equal whatever sequences of
\* insert, remove and remove_prefix produced them.
C34_EqualityIgnoresHistory ==
    (kind = "Trie" /\ Stored(trie_1, data_trie_1) = Stored(trie_2, data_trie_2))
        => \A rev \in BOOLEAN : Trie_eq(trie_1, trie_2, rev)

IsEmpty(T, D) == IF kind = "Trie" THEN Trie_is_empty(T) ELSE DataTrie_is_empty(D)

\* C35: equal tries report equal sizes: a == b implies a.len() == b.len() and
\* a.is_empty() == b.is_empty(), for tries reached by any operations, merges
\* included.
C35_EqualTriesEqualSizes ==
    (\E rev \in BOOLEAN : Eq(trie_1, data_trie_1, trie_2, data_trie_2, rev))
        => /\ LenOf(trie_1, data_trie_1) = LenOf(trie_2, data_trie_2)
           /\ IsEmpty(trie_1, data_trie_1) = IsEmpty(trie_2, data_trie_2)

\* C36: insert_no_data(k) on a word k that is already stored is a no-op: k's
\* data list, len() and every other word with its data are unchanged.
C36_InsertNoDataOnStoredWord ==
    [][ ( /\ last'.op = "insert_no_data" /\ ops' = ops + 1 /\ kind = "DataTrie"
          /\ DataTrie_contains(data_trie_1, last'.word) )
        => /\ ~panicked'
           /\ DataTrie_len(data_trie_1') = DataTrie_len(data_trie_1)
           /\ \A w \in Words :
                 /\ DataTrie_contains(data_trie_1', w) = DataTrie_contains(data_trie_1, w)
                 /\ DataTrie_get_data(data_trie_1', w, FALSE)
                       = DataTrie_get_data(data_trie_1, w, FALSE)
           /\ data_trie_1' = data_trie_1 ]_vars

\* insert_no_data(a) on a trie where a carries [1, 2]
C36_Witness ==
    /\ kind = "DataTrie" /\ ~panicked
    /\ last.op = "insert_no_data" /\ last.branch = "again" /\ last.word = <<"a">>
    /\ DataTrie_get_data(data_trie_1, <<"a">>, FALSE) = Some(<<1, 2>>)
    /\ DataTrie_len(data_trie_1) = 1

\* C37: merge handles the empty key like any other key: when the right-hand
\* operand stores the empty word and the left-hand operand does not, the result
\* of a += b (or a + b) contains the empty word and, for DataTrie, carries the
\* data that was attached to it.
C37_MergeKeepsEmptyKey ==
    [][ ( /\ Merges
          /\ Contains(trie_2, data_trie_2, <<>>)
          /\ ~Contains(trie_1, data_trie_1, <<>>) )
        => /\ Contains(trie_1', data_trie_1', <<>>)
           /\ DataOf(trie_1', data_trie_1', <<>>) = DataOf(trie_2, data_trie_2, <<>>) ]_vars

-----------------------------------------------------------------------------
(* The node-level associate *)

\* the node that the associate() call of this step was made on
AssociatedNode ==
    IF last'.op = "TrieNode::associate" THEN AsTrieNode(trie_1, data_trie_1, last'.word)
    ELSE IF kind = "Trie" THEN unwrap(Trie_get_final_node(trie_1, last'.word))
    ELSE unwrap(DataTrie_get_final_node(data_trie_1, last'.word))

\* C38: the node-level associate is a no-op on a node that is already
\* associated: the association and, for the data-carrying node, the stored
\* data list are unchanged (TrieDataNode and the generic TrieNode alike).
C38_AssociateIsIdempotent ==
    [][ ( /\ last'.op \in {"associate", "TrieNode::associate"} /\ ops' = ops + 1
          /\ last'.branch = "again" )
        => unwrap(last'.ret) = AssociatedNode ]_vars

====
